---- MODULE Spec2Model ----
(***************************************************************************)
(* Model of the active-tab synchronisation of PlaygroundInternalTabBar     *)
(* (src/src/internal/tab-bar.ts) and of the active-file reconciliation of  *)
(* PlaygroundTabBar (src/src/playground-tab-bar.ts).                       *)
(*                                                                         *)
(* The two elements share no state.  SpecTabs runs the operations of the   *)
(* internal tab bar, SpecFiles the operations of the file tab bar.         *)
(***************************************************************************)
EXTENDS Integers, Sequences, FiniteSets, TLC

(* -------- bounds -------- *)
NumTabs == 2
NumNames == 3
MaxFiles == 3
NumEditors == 2
MaxCallbacks == 2

(* -------- values -------- *)
None == 0
Tabs == 1..NumTabs
Range(s) == {s[i] : i \in 1..Len(s)}
DistinctSeqs(S) ==
  {s \in UNION {[1..n -> S] : n \in 0..Cardinality(S)} :
     \A i, j \in 1..Len(s) : i # j => s[i] # s[j]}

VARIABLES
  _tabs,       \* PlaygroundInternalTabBar._tabs: the slotted tabs, in display order
  _active,     \* PlaygroundInternalTabBar._active: a tab or None (undefined)
  tabActive,   \* tab.active of every tab element
  tabAttr,     \* tab.hasAttribute('active') of every tab element
  tabIndex,    \* tab.index of every tab element
  lastOp,      \* the operation that ran last: [op, arg]
  repeated,    \* lastOp repeats the operation before it, with the same argument
  pre,         \* what lastOp started from: _active, the tabs that claimed to be
               \* active (property or attribute), a tab index that was off
  writes,      \* the assignments to tab.active made by lastOp, in order
  snaps,       \* tab.active of every tab after each of these assignments
  events,      \* the tabchange events dispatched during lastOp, in order
  handled,     \* the runs of the bar's tabchange listener during lastOp
  awaiting,    \* the tabs for which a run of _onKeydown is suspended at
               \* await tab.updateComplete
  suspended,   \* the tabs for which lastOp suspended at that await, in order
  focused,     \* the tabs on which lastOp called focus(), in order
  error,       \* a handler of the bar has thrown
  files,              \* PlaygroundProject.files: sequence of [name, hidden]
  _activeFileName,    \* PlaygroundTabBar._activeFileName
  _activeFileIndex,   \* PlaygroundTabBar._activeFileIndex
  _editor,            \* PlaygroundTabBar._editor is set
  changedName,        \* changedProperties.has('_activeFileName') of the pending update
  pending,            \* a Lit update of the file tab bar is scheduled
  lastFileOp,         \* the handler of the file tab bar that ran last: [op, kind,
                      \* name, reconciled], where kind and name tell how the
                      \* project's files changed and reconciled whether
                      \* _setNewActiveFile ran
  preFile,            \* what _setNewActiveFile started from in lastFileOp: the
                      \* active name, the active index, and the position (pos)
                      \* of the active name in the visible files before the
                      \* files changed
  controlsState,      \* PlaygroundFileSystemControls.state
  controlsFilename,   \* PlaygroundFileSystemControls.filename
  controlsProject,    \* PlaygroundFileSystemControls._project is set
  controlsPending,    \* a Lit update of the controls is scheduled
  shown,              \* the state that the controls rendered last
  inputValue,         \* value of the rendered .filename-input
  submitDisabled,     \* disabled of the rendered .submit-button
  lastControlsOp,     \* the handler of the controls that ran last: [op, clicked,
                      \* call, name, enabled, log], where clicked tells whether
                      \* the submit button was clicked, call and name which
                      \* method of the project was called with which new
                      \* filename, enabled whether a project was attached and
                      \* isValidNewFilename(input value) held when op started,
                      \* and log what a submit handler called and dispatched,
                      \* in order
  editorNode,         \* PlaygroundTabBar._editor: a node or NoEditor (undefined)
  inDocument,         \* the editor nodes that the tab bar's root contains now;
                      \* every node has an id of its own
  callbacks,          \* the ids whose lookup is waiting in a callback passed to
                      \* requestAnimationFrame, in the order of the requests
  lastAssigned        \* the last assignment to the editor property: [kind,
                      \* node], an id or an element

tabVars == <<_tabs, _active, tabActive, tabAttr, tabIndex, lastOp, repeated, pre,
             writes, snaps, events, handled, awaiting, suspended, focused, error>>
fileVars == <<files, _activeFileName, _activeFileIndex, _editor, changedName,
              pending, lastFileOp, preFile>>
controlsVars == <<controlsState, controlsFilename, controlsProject, controlsPending,
                  shown, inputValue, submitDisabled, lastControlsOp>>
controlsVarsButOp == <<controlsState, controlsFilename, controlsProject,
                       controlsPending, shown, inputValue, submitDisabled>>
editorVars == <<editorNode, inDocument, callbacks, lastAssigned>>
vars == <<tabVars, fileVars, controlsVars, editorVars>>

(***************************************************************************)
(* The internal tab bar.  The operators below work on a record s holding   *)
(* the bar and its tabs while one handler runs:                            *)
(*   s.tabs, s.active, s.flag, s.attr, s.index, and the logs               *)
(*   s.writes, s.snaps, s.events, s.handled, s.suspended, s.focused,       *)
(* and s.awaiting, s.error.                                                *)
(***************************************************************************)
RECURSIVE SetActive(_, _), TabSetActive(_, _, _), ActivateTab(_, _)

\* An element on the path of an event is a tab or something else (Other):
\* content nested in a tab, or the slot, the bar and their ancestors.
Other == -1
IsTab(el) == el \in Tabs

\* Variant of _findEventTab that looks at the event's target only.
FindEventTab_TargetOnly(path) ==
  IF path # <<>> /\ IsTab(path[1]) THEN path[1] ELSE None

\* _findEventTab(event), where path is event.composedPath() and path[1],
\* if there is one, is event.target.
FindEventTab(path) ==
  IF path # <<>> /\ IsTab(path[1])
    THEN path[1]
    ELSE IF \E i \in 1..Len(path) : IsTab(path[i])
           THEN path[CHOOSE i \in 1..Len(path) :
                       IsTab(path[i]) /\ \A j \in 1..(i - 1) : ~IsTab(path[j])]
           ELSE None

\* <playground-internal-tab>.active = v.  A changed value is reflected to the
\* attribute; a change from false to true dispatches a bubbling tabchange,
\* which the bar's listener on its <slot> receives when the tab is slotted.
TabSetActive(s, t, v) ==
  LET changed == s.flag[t] # v
      flag1 == [s.flag EXCEPT ![t] = v]
      s1 == [s EXCEPT !.flag = flag1,
                      !.attr = IF changed THEN [s.attr EXCEPT ![t] = v] ELSE s.attr,
                      !.writes = Append(s.writes, <<t, v>>),
                      !.snaps = Append(s.snaps, flag1)]
  IN IF changed /\ v
       THEN LET s2 == [s1 EXCEPT !.events = Append(s1.events, [by |-> "tab", tab |-> t])]
            IN IF t \in Range(s2.tabs) THEN ActivateTab(s2, <<t, Other>>) ELSE s2
       ELSE s1

\* Variants of set active(tab) with one slip each.
\* The previous tab is not deactivated.
SetActive_KeepsOld(s, tab) ==
  LET oldActive == s.active
  IN IF tab = oldActive
       THEN s
       ELSE LET s1 == [s EXCEPT !.active = tab]
            IN IF tab # None
                 THEN TabSetActive(s1, tab, TRUE)
                 ELSE [s1 EXCEPT !.events = Append(s1.events, [by |-> "bar", tab |-> None])]

\* The new tab is activated before the previous one is deactivated.
SetActive_NewFirst(s, tab) ==
  LET oldActive == s.active
  IN IF tab = oldActive
       THEN s
       ELSE LET s1 == [s EXCEPT !.active = tab]
                s2 == IF tab # None
                        THEN TabSetActive(s1, tab, TRUE)
                        ELSE [s1 EXCEPT !.events = Append(s1.events, [by |-> "bar", tab |-> None])]
            IN IF oldActive # None THEN TabSetActive(s2, oldActive, FALSE) ELSE s2

\* The early return for an unchanged tab is missing.
SetActive_NoGuard(s, tab) ==
  LET oldActive == s.active
      s1 == [s EXCEPT !.active = tab]
      s2 == IF oldActive # None THEN TabSetActive(s1, oldActive, FALSE) ELSE s1
  IN IF tab # None
       THEN TabSetActive(s2, tab, TRUE)
       ELSE [s2 EXCEPT !.events = Append(s2.events, [by |-> "bar", tab |-> None])]

\* The bar dispatches no tabchange when the new active tab is undefined.
SetActive_SilentClear(s, tab) ==
  LET oldActive == s.active
  IN IF tab = oldActive
       THEN s
       ELSE LET s1 == [s EXCEPT !.active = tab]
                s2 == IF oldActive # None THEN TabSetActive(s1, oldActive, FALSE) ELSE s1
            IN IF tab # None THEN TabSetActive(s2, tab, TRUE) ELSE s2

\* this._active is assigned after the tabs' properties instead of before.
SetActive_RecordsLate(s, tab) ==
  LET oldActive == s.active
  IN IF tab = oldActive
       THEN s
       ELSE LET s2 == IF oldActive # None THEN TabSetActive(s, oldActive, FALSE) ELSE s
                s3 == IF tab # None
                        THEN TabSetActive(s2, tab, TRUE)
                        ELSE [s2 EXCEPT !.events = Append(s2.events, [by |-> "bar", tab |-> None])]
            IN [s3 EXCEPT !.active = tab]

\* set active(tab), with the statements in the order of the source.
SetActive(s, tab) ==
  LET oldActive == s.active
  IN IF tab = oldActive
       THEN s
       ELSE LET s1 == [s EXCEPT !.active = tab]
                s2 == IF oldActive # None THEN TabSetActive(s1, oldActive, FALSE) ELSE s1
            IN IF tab # None
                 THEN TabSetActive(s2, tab, TRUE)
                 ELSE [s2 EXCEPT !.events = Append(s2.events, [by |-> "bar", tab |-> None])]

\* Variant of _activateTab that assigns the field _active instead of
\* going through the setter.
ActivateTab_WritesField(s, path) ==
  LET tab == FindEventTab(path)
      out == IF tab = None \/ tab = s.active THEN s ELSE [s EXCEPT !.active = tab]
  IN [out EXCEPT !.handled = Append(out.handled,
        [tab |-> tab,
         noop |-> out.active = s.active /\ out.flag = s.flag /\ out.events = s.events])]

\* _activateTab(event), for an event with the composed path path.
\* tab?.scrollIntoView changes none of the modelled state.
ActivateTab(s, path) ==
  LET tab == FindEventTab(path)
      out == IF tab = None \/ tab = s.active THEN s ELSE SetActive(s, tab)
  IN [out EXCEPT !.handled = Append(out.handled,
        [tab |-> tab,
         noop |-> out.active = s.active /\ out.flag = s.flag /\ out.events = s.events])]

RECURSIVE SlotLoop(_, _, _)
\* Variants of the loop with one slip each.
\* Tabs after the first active one keep their active property.
SlotLoop_KeepsLater(s, i, newActive) ==
  IF i > Len(s.tabs)
    THEN [s |-> s, newActive |-> newActive]
    ELSE LET tab == s.tabs[i]
             s1 == [s EXCEPT !.index[tab] = i - 1]
         IN IF newActive # None
              THEN SlotLoop(s1, i + 1, newActive)
              ELSE IF s1.flag[tab] \/ s1.attr[tab]
                     THEN SlotLoop(s1, i + 1, tab)
                     ELSE SlotLoop(s1, i + 1, newActive)

\* Tabs after the first active one are not given their index.
SlotLoop_IndexStops(s, i, newActive) ==
  IF i > Len(s.tabs)
    THEN [s |-> s, newActive |-> newActive]
    ELSE LET tab == s.tabs[i]
             s1 == [s EXCEPT !.index[tab] = i - 1]
         IN IF newActive # None
              THEN SlotLoop(TabSetActive(s, tab, FALSE), i + 1, newActive)
              ELSE IF s1.flag[tab] \/ s1.attr[tab]
                     THEN SlotLoop(s1, i + 1, tab)
                     ELSE SlotLoop(s1, i + 1, newActive)

\* The loop of _onSlotchange from position i on, with newActive so far.
SlotLoop(s, i, newActive) ==
  IF i > Len(s.tabs)
    THEN [s |-> s, newActive |-> newActive]
    ELSE LET tab == s.tabs[i]
             s1 == [s EXCEPT !.index[tab] = i - 1]
         IN IF newActive # None
              THEN SlotLoop(TabSetActive(s1, tab, FALSE), i + 1, newActive)
              ELSE IF s1.flag[tab] \/ s1.attr[tab]
                     THEN SlotLoop(s1, i + 1, tab)
                     ELSE SlotLoop(s1, i + 1, newActive)

\* Variant of _onSlotchange that keeps the active tab when no item claims
\* to be active.
OnSlotchange_KeepsActive(s, items) ==
  LET r == SlotLoop([s EXCEPT !.tabs = items], 1, None)
  IN IF r.newActive = None THEN r.s ELSE SetActive(r.s, r.newActive)

\* _onSlotchange(event), where items are the slot's assigned elements.
OnSlotchange(s, items) ==
  LET r == SlotLoop([s EXCEPT !.tabs = items], 1, None)
  IN SetActive(r.s, r.newActive)

Keys == {"ArrowLeft", "ArrowRight", "Enter"}

\* this._tabs[idx] for idx from 0: undefined (None) outside the array.
TabAt(s, idx) == IF idx + 1 \in 1..Len(s.tabs) THEN s.tabs[idx + 1] ELSE None

\* _onKeydown(event) after newIdx is computed, up to the await: reading
\* updateComplete of undefined throws.
KeydownTo(s, oldIdx, newIdx) ==
  IF newIdx # oldIdx
    THEN LET tab == TabAt(s, newIdx)
             s1 == SetActive(s, tab)
         IN IF tab = None
              THEN [s1 EXCEPT !.error = TRUE]
              ELSE [s1 EXCEPT !.awaiting = s1.awaiting \cup {tab},
                              !.suspended = Append(s1.suspended, tab)]
    ELSE s

OldIdx(s) == IF s.active # None THEN s.index[s.active] ELSE 0

\* Variants of _onKeydown with one slip each.
\* ArrowLeft at index 0 and ArrowRight at the last index wrap around.
OnKeydown_Wraps(s, key) ==
  LET oldIdx == OldIdx(s)
      n == Len(s.tabs)
      newIdx == IF key = "ArrowLeft"
                  THEN (IF oldIdx > 0 THEN oldIdx - 1 ELSE n - 1)
                  ELSE IF key = "ArrowRight"
                         THEN (IF oldIdx < n - 1 THEN oldIdx + 1 ELSE 0)
                         ELSE oldIdx
  IN IF n = 0 THEN s ELSE KeydownTo(s, oldIdx, newIdx)

\* ArrowLeft is not stopped at index 0.
OnKeydown_NoLeftBound(s, key) ==
  LET oldIdx == OldIdx(s)
      newIdx == IF key = "ArrowLeft"
                  THEN oldIdx - 1
                  ELSE IF key = "ArrowRight" /\ oldIdx < Len(s.tabs) - 1
                         THEN oldIdx + 1
                         ELSE oldIdx
  IN KeydownTo(s, oldIdx, newIdx)

\* ArrowRight is not stopped at the last index.
OnKeydown_NoRightBound(s, key) ==
  LET oldIdx == OldIdx(s)
      newIdx == IF key = "ArrowLeft" /\ oldIdx > 0
                  THEN oldIdx - 1
                  ELSE IF key = "ArrowRight"
                         THEN oldIdx + 1
                         ELSE oldIdx
  IN KeydownTo(s, oldIdx, newIdx)

\* focus() is called without waiting for tab.updateComplete.
OnKeydown_NoAwait(s, key) ==
  LET oldIdx == OldIdx(s)
      newIdx == IF key = "ArrowLeft" /\ oldIdx > 0
                  THEN oldIdx - 1
                  ELSE IF key = "ArrowRight" /\ oldIdx < Len(s.tabs) - 1
                         THEN oldIdx + 1
                         ELSE oldIdx
      tab == TabAt(s, newIdx)
  IN IF newIdx # oldIdx /\ tab # None
       THEN LET s1 == SetActive(s, tab)
            IN [s1 EXCEPT !.focused = Append(s1.focused, tab)]
       ELSE s

\* _onKeydown(event) for event.key = key, up to the await.
OnKeydown(s, key) ==
  LET oldIdx == OldIdx(s)
      newIdx == IF key = "ArrowLeft" /\ oldIdx > 0
                  THEN oldIdx - 1
                  ELSE IF key = "ArrowRight" /\ oldIdx < Len(s.tabs) - 1
                         THEN oldIdx + 1
                         ELSE oldIdx
  IN KeydownTo(s, oldIdx, newIdx)

\* The rest of _onKeydown, after await tab.updateComplete: tab.focus().
FocusAfterAwait(s, tab) ==
  [s EXCEPT !.awaiting = s.awaiting \ {tab},
            !.focused = Append(s.focused, tab)]

\* The bar and its tabs when a handler starts: the logs are empty.
Cur == [tabs |-> _tabs, active |-> _active, flag |-> tabActive, attr |-> tabAttr,
        index |-> tabIndex, writes |-> <<>>, snaps |-> <<>>, events |-> <<>>,
        handled |-> <<>>, awaiting |-> awaiting, suspended |-> <<>>,
        focused |-> <<>>, error |-> error]

\* Store the outcome s of the handler op(arg).
Commit(s, op, arg) ==
  /\ _tabs' = s.tabs
  /\ _active' = s.active
  /\ tabActive' = s.flag
  /\ tabAttr' = s.attr
  /\ tabIndex' = s.index
  /\ writes' = s.writes
  /\ snaps' = s.snaps
  /\ events' = s.events
  /\ handled' = s.handled
  /\ awaiting' = s.awaiting
  /\ suspended' = s.suspended
  /\ focused' = s.focused
  /\ error' = s.error
  /\ repeated' = (lastOp.op = op /\ lastOp.arg = arg)
  /\ lastOp' = [op |-> op, arg |-> arg]
  /\ pre' = [active |-> _active,
             claim |-> {t \in Tabs : tabActive[t] \/ tabAttr[t]},
             moved |-> \E i \in 1..Len(s.tabs) : tabIndex[s.tabs[i]] # i - 1]

InitTabs ==
  /\ _tabs = <<>>
  /\ _active = None
  /\ tabActive = [t \in Tabs |-> FALSE]
  /\ tabAttr = [t \in Tabs |-> FALSE]
  /\ tabIndex = [t \in Tabs |-> 0]
  /\ lastOp = [op |-> "init", arg |-> None]
  /\ repeated = FALSE
  /\ pre = [active |-> None, claim |-> {}, moved |-> FALSE]
  /\ writes = <<>>
  /\ snaps = <<>>
  /\ events = <<>>
  /\ handled = <<>>
  /\ awaiting = {}
  /\ suspended = <<>>
  /\ focused = <<>>
  /\ error = FALSE

\* bar.active = x for an item of the collection or undefined.
DoSetActive ==
  \E x \in Range(_tabs) \cup {None} :
    /\ Commit(SetActive(Cur, x), "setActive", x)
    /\ UNCHANGED <<fileVars, controlsVars, editorVars>>

\* The slotted children changed and slotchange is delivered.
DoSlotchange ==
  \E items \in DistinctSeqs(Tabs) :
    /\ Commit(OnSlotchange(Cur, items), "slotchange", items)
    /\ UNCHANGED <<fileVars, controlsVars, editorVars>>

\* The composed paths of the events that reach the listeners on the slot:
\* from a slotted tab, from content nested in a slotted tab, or from a
\* slotted element that is no tab.
EventPaths == {<<t, Other>> : t \in Range(_tabs)}
              \cup {<<Other, t, Other>> : t \in Range(_tabs)}
              \cup {<<Other, Other>>}

\* A click in the slot.
DoClick ==
  \E path \in EventPaths :
    /\ Commit(ActivateTab(Cur, path), "click", path)
    /\ UNCHANGED <<fileVars, controlsVars, editorVars>>

\* A keydown in the slot.
DoKeydown ==
  \E key \in Keys :
    /\ Commit(OnKeydown(Cur, key), "keydown", key)
    /\ UNCHANGED <<fileVars, controlsVars, editorVars>>

\* tab.updateComplete resolves for a suspended run of _onKeydown.
DoFocus ==
  \E t \in awaiting :
    /\ Commit(FocusAfterAwait(Cur, t), "focus", t)
    /\ UNCHANGED <<fileVars, controlsVars, editorVars>>

\* A tab element sets its own active property to true.
DoTabSelfActivate ==
  \E t \in Tabs :
    /\ ~tabActive[t]
    /\ Commit(TabSetActive(Cur, t, TRUE), "tabActive", t)
    /\ UNCHANGED <<fileVars, controlsVars, editorVars>>

\* An element that is not slotted yet carries the active attribute, which
\* has not been reflected to its property.
DoMarkAttribute ==
  \E t \in Tabs \ Range(_tabs) :
    /\ ~tabAttr[t]
    /\ Commit([Cur EXCEPT !.attr[t] = TRUE], "attribute", t)
    /\ UNCHANGED <<fileVars, controlsVars, editorVars>>

(***************************************************************************)
(* The file tab bar.                                                       *)
(***************************************************************************)
Editors == 1..NumEditors
NoEditor == 0
AllNames == <<"a.js", "b.js", "c.js", "d.js", "e.js">>
FileNames == {AllNames[i] : i \in 1..NumNames}
NoFile == ""
NamesOf(fs) == {fs[i].name : i \in 1..Len(fs)}

\* get _visibleFiles()
VisibleFiles(fs) == SelectSeq(fs, LAMBDA f : ~f.hidden)

\* Array.prototype.findIndex for file.name === name: from 0, or -1.
FindIndex(vis, name) ==
  IF \E i \in 1..Len(vis) : vis[i].name = name
    THEN (CHOOSE i \in 1..Len(vis) :
            vis[i].name = name /\ \A j \in 1..(i - 1) : vis[j].name # name) - 1
    ELSE -1

RECURSIVE ScanLeft(_, _, _)
\* Variant of the loop that stops before position 0.
ScanLeft_SkipsFirst(vis, cur, i) ==
  IF i <= 0
    THEN [name |-> NoFile, index |-> 0]
    ELSE IF i + 1 <= Len(vis) /\ ~vis[i + 1].hidden
           THEN [name |-> vis[i + 1].name, index |-> cur.index]
           ELSE ScanLeft(vis, cur, i - 1)

\* Variant of the loop that leaves _activeFileIndex alone when it finds
\* no visible file.
ScanLeft_KeepsIndex(vis, cur, i) ==
  IF i < 0
    THEN [name |-> NoFile, index |-> cur.index]
    ELSE IF i + 1 <= Len(vis) /\ ~vis[i + 1].hidden
           THEN [name |-> vis[i + 1].name, index |-> cur.index]
           ELSE ScanLeft(vis, cur, i - 1)

\* The loop of _setNewActiveFile at position i (from 0), and the two
\* assignments after it.  cur is the [name, index] the loop started with;
\* the loop assigns _activeFileName only.
ScanLeft(vis, cur, i) ==
  IF i < 0
    THEN [name |-> NoFile, index |-> 0]
    ELSE IF i + 1 <= Len(vis) /\ ~vis[i + 1].hidden
           THEN [name |-> vis[i + 1].name, index |-> cur.index]
           ELSE ScanLeft(vis, cur, i - 1)

\* Variant of _setNewActiveFile whose loop starts left of the old index.
SetNewActiveFile_FromLeft(fs, cur) ==
  LET vis == VisibleFiles(fs)
      index == FindIndex(vis, cur.name)
  IN IF cur.name # NoFile /\ index >= 0
       THEN [name |-> cur.name, index |-> index]
       ELSE ScanLeft(vis, cur, IF cur.index > 0 THEN cur.index - 1 ELSE 0)

\* Variant of _setNewActiveFile without the lookup by name.
SetNewActiveFile_ByIndexOnly(fs, cur) ==
  ScanLeft(VisibleFiles(fs), cur, cur.index)

\* Variant of _setNewActiveFile that picks a file only to replace one.
SetNewActiveFile_OnlyWhenActive(fs, cur) ==
  LET vis == VisibleFiles(fs)
      index == FindIndex(vis, cur.name)
  IN IF cur.name # NoFile /\ index >= 0
       THEN [name |-> cur.name, index |-> index]
       ELSE IF cur.name = NoFile THEN cur ELSE ScanLeft(vis, cur, cur.index)

\* Variant of _setNewActiveFile whose loop starts at the last visible file.
SetNewActiveFile_ScansFromEnd(fs, cur) ==
  LET vis == VisibleFiles(fs)
      index == FindIndex(vis, cur.name)
  IN IF cur.name # NoFile /\ index >= 0
       THEN [name |-> cur.name, index |-> index]
       ELSE ScanLeft(vis, cur, Len(vis) - 1)

\* _setNewActiveFile(), from cur = [name, index].
SetNewActiveFile(fs, cur) ==
  LET vis == VisibleFiles(fs)
      index == FindIndex(vis, cur.name)
  IN IF cur.name # NoFile /\ index >= 0
       THEN [name |-> cur.name, index |-> index]
       ELSE ScanLeft(vis, cur, cur.index)

\* The ways the project changes its files before it dispatches filesChanged.
Edits(fs) ==
  {[files |-> Append(fs, [name |-> n, hidden |-> h]), kind |-> "add", name |-> n] :
     n \in (IF Len(fs) < MaxFiles THEN FileNames \ NamesOf(fs) ELSE {}), h \in BOOLEAN}
  \cup
  {[files |-> SubSeq(fs, 1, i - 1) \o SubSeq(fs, i + 1, Len(fs)),
    kind |-> "delete", name |-> fs[i].name] : i \in 1..Len(fs)}
  \cup
  {[files |-> [fs EXCEPT ![i].hidden = ~fs[i].hidden],
    kind |-> IF fs[i].hidden THEN "show" ELSE "hide", name |-> fs[i].name] :
     i \in 1..Len(fs)}
  \cup
  {[files |-> [fs EXCEPT ![i].name = n], kind |-> "rename", name |-> fs[i].name] :
     i \in 1..Len(fs), n \in FileNames \ NamesOf(fs)}

\* The files that a project can have.
FileLists ==
  UNION {{[i \in 1..Len(q) |-> [name |-> q[i], hidden |-> h[i]]] :
            h \in [1..Len(q) -> BOOLEAN]} :
         q \in {p \in DistinctSeqs(FileNames) : Len(p) <= MaxFiles}}

CurFile == [name |-> _activeFileName, index |-> _activeFileIndex]

InitEditor ==
  /\ editorNode = NoEditor
  /\ inDocument = {}
  /\ callbacks = <<>>
  /\ lastAssigned = [kind |-> "none", node |-> NoEditor]

InitFiles ==
  /\ files = <<>>
  /\ _activeFileName = NoFile
  /\ _activeFileIndex = 0
  /\ _editor = FALSE
  /\ changedName = FALSE
  /\ pending = FALSE
  /\ lastFileOp = [op |-> "init", kind |-> "", name |-> NoFile, reconciled |-> FALSE]
  /\ preFile = [name |-> NoFile, index |-> 0, pos |-> -1]

\* The project changes its files and dispatches filesChanged:
\* _onProjectFilesChanged runs _setNewActiveFile and requests an update.
DoFilesChanged ==
  \E e \in Edits(files) :
    LET new == SetNewActiveFile(e.files, CurFile)
    IN /\ files' = e.files
       /\ _activeFileName' = new.name
       /\ _activeFileIndex' = new.index
       /\ changedName' = (changedName \/ new.name # _activeFileName)
       /\ pending' = TRUE
       /\ lastFileOp' = [op |-> "filesChanged", kind |-> e.kind, name |-> e.name,
                         reconciled |-> TRUE]
       /\ preFile' = [name |-> _activeFileName, index |-> _activeFileIndex,
                      pos |-> FindIndex(VisibleFiles(files), _activeFileName)]
       /\ UNCHANGED <<_editor, tabVars, controlsVars, editorVars>>

\* update(changedProperties) of the scheduled Lit update.  Properties set
\* during update() belong to this update and schedule no other.
DoUpdate ==
  /\ pending
  /\ LET run == changedName /\ _editor
         new == IF run THEN SetNewActiveFile(files, CurFile) ELSE CurFile
     IN /\ _activeFileName' = new.name
        /\ _activeFileIndex' = new.index
        /\ lastFileOp' = [op |-> "update", kind |-> "", name |-> NoFile,
                          reconciled |-> run]
        /\ preFile' = [name |-> _activeFileName, index |-> _activeFileIndex,
                       pos |-> FindIndex(VisibleFiles(files), _activeFileName)]
  /\ pending' = FALSE
  /\ changedName' = FALSE
  /\ UNCHANGED <<files, _editor, tabVars, controlsVars, editorVars>>

\* The tab bar, which had no project yet or one without files, gets a
\* project, and the update that this schedules runs:
\* update(changedProperties) with _project changed calls
\* _onProjectFilesChanged, whose assignments belong to the same update.
DoProjectChanged ==
  /\ ~pending
  /\ files = <<>>
  /\ \E fs \in FileLists :
       LET first == SetNewActiveFile(fs, CurFile)
           run == first.name # _activeFileName /\ _editor
           new == IF run THEN SetNewActiveFile(fs, first) ELSE first
       IN /\ fs # files
          /\ files' = fs
          /\ _activeFileName' = new.name
          /\ _activeFileIndex' = new.index
  /\ lastFileOp' = [op |-> "projectChanged", kind |-> "", name |-> NoFile,
                    reconciled |-> TRUE]
  /\ preFile' = [name |-> _activeFileName, index |-> _activeFileIndex,
                 pos |-> FindIndex(VisibleFiles(files), _activeFileName)]
  /\ UNCHANGED <<_editor, changedName, pending, tabVars, controlsVars, editorVars>>

\* _onTabActivated(event): sl-tab-show of one of the rendered tabs.  The
\* tabs are rendered from _visibleFiles by the update that every change of
\* the files requests, and that update runs before the next user event.
DoTabActivated ==
  /\ ~pending
  /\ \E filename \in NamesOf(VisibleFiles(files)) :
       /\ filename # _activeFileName
       /\ _activeFileName' = filename
       /\ _activeFileIndex' = FindIndex(VisibleFiles(files), filename)
       /\ changedName' = TRUE
       /\ pending' = TRUE
       /\ lastFileOp' = [op |-> "tabActivated", kind |-> "", name |-> filename,
                         reconciled |-> FALSE]
       /\ preFile' = [name |-> _activeFileName, index |-> _activeFileIndex,
                      pos |-> FindIndex(VisibleFiles(files), _activeFileName)]
  /\ UNCHANGED <<files, _editor, tabVars, controlsVars, editorVars>>

\* _onNewFile(event): the newFile event of the file system controls.
DoNewFile ==
  \E filename \in FileNames :
    /\ filename # _activeFileName
    /\ _activeFileName' = filename
    /\ changedName' = TRUE
    /\ pending' = TRUE
    /\ lastFileOp' = [op |-> "newFile", kind |-> "", name |-> filename,
                      reconciled |-> FALSE]
    /\ preFile' = [name |-> _activeFileName, index |-> _activeFileIndex,
                   pos |-> FindIndex(VisibleFiles(files), _activeFileName)]
    /\ UNCHANGED <<files, _activeFileIndex, _editor, tabVars, controlsVars, editorVars>>

\* set editor(element), or an id lookup that finds an element or nothing:
\* the tab bar gets the host's editor, or loses it.
DoSetEditor ==
  /\ _editor' = ~_editor
  /\ editorNode' = IF _editor THEN NoEditor ELSE 1
  /\ pending' = TRUE
  /\ lastFileOp' = [op |-> "editor", kind |-> "", name |-> NoFile,
                    reconciled |-> FALSE]
  /\ UNCHANGED <<files, _activeFileName, _activeFileIndex, changedName, preFile,
                 tabVars, controlsVars, inDocument, callbacks, lastAssigned>>

NextFiles ==
  \/ DoProjectChanged
  \/ DoFilesChanged
  \/ DoUpdate
  \/ DoTabActivated
  \/ DoNewFile
  \/ DoSetEditor

(***************************************************************************)
(* The file system controls, which the file tab bar renders with its own   *)
(* project, and the methods of the project that they call.                 *)
(***************************************************************************)
Forms == {"rename", "newfile"}

\* PlaygroundProject.isValidNewFilename(name): a name that is not empty and
\* that no file of the project has.
IsValidNewFilename(fs, name) == name # NoFile /\ name \notin NamesOf(fs)

\* PlaygroundProject.addFile(name): the files after the call.
AddFile(fs, name) ==
  IF IsValidNewFilename(fs, name)
    THEN Append(fs, [name |-> name, hidden |-> FALSE])
    ELSE fs

\* PlaygroundProject.renameFile(oldName, newName): the files after the call.
RenameFile(fs, oldName, newName) ==
  IF oldName \in NamesOf(fs) /\ IsValidNewFilename(fs, newName)
    THEN [i \in 1..Len(fs) |->
            IF fs[i].name = oldName THEN [fs[i] EXCEPT !.name = newName] ELSE fs[i]]
    ELSE fs

\* PlaygroundProject.deleteFile(name): the files after the call.
DeleteFile(fs, name) == SelectSeq(fs, LAMBDA f : f.name # name)

\* The file tab bar as its handlers read and write it.
TabBar == [name |-> _activeFileName, index |-> _activeFileIndex,
           changed |-> changedName, pending |-> pending]

\* _onProjectFilesChanged() of the tab bar b when the files have become fs.
OnProjectFilesChanged(b, fs) ==
  LET new == SetNewActiveFile(fs, [name |-> b.name, index |-> b.index])
  IN [name |-> new.name, index |-> new.index,
      changed |-> (b.changed \/ new.name # b.name), pending |-> TRUE]

\* _onNewFile(event) of the tab bar b for event.detail.filename = name.
OnNewFile(b, name) ==
  [b EXCEPT !.name = name,
            !.changed = (b.changed \/ name # b.name),
            !.pending = (b.pending \/ name # b.name)]

\* The project has called its method: if that changed the files to fs, it
\* has dispatched filesChanged to the tab bar b.
AfterProjectCall(b, fs) ==
  IF fs # files THEN OnProjectFilesChanged(b, fs) ELSE b

\* get _filenameInputValid(), where exists tells whether the query for
\* .filename-input finds an element.
FilenameInputValid(exists) ==
  controlsProject /\ exists /\ IsValidNewFilename(files, inputValue)

\* The controls' handler has run: store what it left of the project and of
\* the tab bar b, and what it did.
ControlsDone(fs, b, op) ==
  /\ files' = fs
  /\ _activeFileName' = b.name
  /\ _activeFileIndex' = b.index
  /\ changedName' = b.changed
  /\ pending' = b.pending
  /\ lastControlsOp' = op
  /\ lastFileOp' = [op |-> "controls", kind |-> op.call, name |-> op.name,
                    reconciled |-> (fs # files)]
  /\ preFile' = [name |-> _activeFileName, index |-> _activeFileIndex,
                 pos |-> FindIndex(VisibleFiles(files), _activeFileName)]
  /\ UNCHANGED <<_editor, tabVars, editorVars>>

\* What a handler did that neither clicked the submit button nor called
\* the project.
NoCall(op) ==
  [op |-> op, clicked |-> FALSE, call |-> "none", name |-> NoFile,
   enabled |-> (op = "enter" /\ FilenameInputValid(TRUE)), log |-> <<>>]

\* A user's event is a task: the updates that the components scheduled
\* before it have run.
Settled == ~pending /\ ~controlsPending

InitControls ==
  /\ controlsState = "closed"
  /\ controlsFilename = NoFile
  /\ controlsProject = FALSE
  /\ controlsPending = FALSE
  /\ shown = "closed"
  /\ inputValue = NoFile
  /\ submitDisabled = TRUE
  /\ lastControlsOp = [op |-> "init", clicked |-> FALSE, call |-> "none",
                       name |-> NoFile, enabled |-> FALSE, log |-> <<>>]

\* The controls' state property is assigned value.
SetControlsState(value) ==
  /\ controlsState' = value
  /\ controlsPending' = (controlsPending \/ value # controlsState)

\* _onClickAddFile(event) of the tab bar: controls.state = 'newfile'.
DoClickAddFile ==
  /\ Settled
  /\ SetControlsState("newfile")
  /\ ControlsDone(files, TabBar, NoCall("clickAddFile"))
  /\ UNCHANGED <<controlsFilename, controlsProject, shown, inputValue, submitDisabled>>

\* _onClickMenuButton(event) of the tab bar, on the menu button of the tab
\* of a visible file.
DoClickMenuButton ==
  /\ Settled
  /\ \E name \in NamesOf(VisibleFiles(files)) :
       /\ SetControlsState("menu")
       /\ controlsFilename' = name
  /\ ControlsDone(files, TabBar, NoCall("clickMenuButton"))
  /\ UNCHANGED <<controlsProject, shown, inputValue, submitDisabled>>

\* _onMenuSelectRename()
DoMenuSelectRename ==
  /\ Settled
  /\ shown = "menu"
  /\ SetControlsState("rename")
  /\ ControlsDone(files, TabBar, NoCall("menuSelectRename"))
  /\ UNCHANGED <<controlsFilename, controlsProject, shown, inputValue, submitDisabled>>

\* _onMenuSelectDelete()
DoMenuSelectDelete ==
  /\ Settled
  /\ shown = "menu"
  /\ SetControlsState("closed")
  /\ LET calls == controlsProject /\ controlsFilename # NoFile
         fs == IF calls THEN DeleteFile(files, controlsFilename) ELSE files
     IN ControlsDone(fs, AfterProjectCall(TabBar, fs),
          [op |-> "menuSelectDelete", clicked |-> FALSE,
           call |-> IF calls THEN "deleteFile" ELSE "none",
           name |-> NoFile, enabled |-> FALSE, log |-> <<>>])
  /\ UNCHANGED <<controlsFilename, controlsProject, shown, inputValue, submitDisabled>>

\* _onClickCancel(), or a click outside of the controls.
DoClickCancel ==
  /\ Settled
  /\ shown # "closed"
  /\ SetControlsState("closed")
  /\ ControlsDone(files, TabBar, NoCall("clickCancel"))
  /\ UNCHANGED <<controlsFilename, controlsProject, shown, inputValue, submitDisabled>>

\* The user edits the filename input: _onFilenameInputChange() requests an
\* update.
DoFilenameInputChange ==
  /\ Settled
  /\ shown \in Forms
  /\ \E value \in FileNames \cup {NoFile} :
       /\ value # inputValue
       /\ inputValue' = value
  /\ controlsPending' = TRUE
  /\ ControlsDone(files, TabBar, NoCall("filenameInputChange"))
  /\ UNCHANGED <<controlsState, controlsFilename, controlsProject, shown, submitDisabled>>

\* The project of the controls is set or unset, in a task of its own.
DoSetControlsProject ==
  /\ Settled
  /\ controlsProject' = ~controlsProject
  /\ controlsPending' = TRUE
  /\ ControlsDone(files, TabBar, NoCall("project"))
  /\ UNCHANGED <<controlsState, controlsFilename, shown, inputValue, submitDisabled>>

\* The scheduled update of the controls: render().  A form that was not
\* rendered before gets a new input, which the query during render() does
\* not find yet; the rename form binds its value to filename.  Without a
\* form there is no input and no submit button.
DoControlsUpdate ==
  /\ controlsPending
  /\ controlsPending' = FALSE
  /\ shown' = controlsState
  /\ inputValue' = IF controlsState \notin Forms THEN NoFile
                   ELSE IF controlsState = shown THEN inputValue
                   ELSE IF controlsState = "rename" THEN controlsFilename
                   ELSE NoFile
  /\ submitDisabled' = IF controlsState \in Forms
                         THEN ~FilenameInputValid(shown = controlsState)
                         ELSE TRUE
  /\ ControlsDone(files, TabBar, NoCall("update"))
  /\ UNCHANGED <<controlsState, controlsFilename, controlsProject>>

\* _onSubmitRename() for form = "rename" and _onSubmitNewFile() for form =
\* "newfile", after this._close(): the call of the project, and the
\* newFile event that the tab bar handles.
Submit(form) ==
  LET new == inputValue
      calls == IF form = "rename"
                 THEN controlsProject /\ controlsFilename # NoFile /\ new # NoFile
                 ELSE controlsProject /\ new # NoFile
      fs == IF ~calls THEN files
            ELSE IF form = "rename" THEN RenameFile(files, controlsFilename, new)
            ELSE AddFile(files, new)
      b1 == AfterProjectCall(TabBar, fs)
      b2 == IF calls /\ form = "newfile" THEN OnNewFile(b1, new) ELSE b1
  IN [files |-> fs, bar |-> b2,
      call |-> IF ~calls THEN "none"
               ELSE IF form = "rename" THEN "renameFile" ELSE "addFile",
      name |-> IF calls THEN new ELSE NoFile,
      log |-> IF ~calls THEN <<>>
              ELSE IF form = "rename" THEN <<"renameFile">>
              ELSE <<"addFile", "newFile">>]

\* _onFilenameInputKeydown(event) for Enter clicks the submit button:
\* this._submitButton?.disabled === false.
EnterClicks == shown \in Forms /\ submitDisabled = FALSE

\* A click on the submit button of the rendered form.
ClickSubmit(op) ==
  LET r == Submit(shown)
  IN /\ Len(r.files) <= MaxFiles
     /\ SetControlsState("closed")
     /\ ControlsDone(r.files, r.bar,
          [op |-> op, clicked |-> TRUE, call |-> r.call, name |-> r.name,
           enabled |-> FilenameInputValid(TRUE), log |-> r.log])
     /\ UNCHANGED <<controlsFilename, controlsProject, shown, inputValue, submitDisabled>>

\* A keydown of Enter in the filename input.
DoFilenameInputKeydown ==
  /\ Settled
  /\ shown \in Forms
  /\ IF EnterClicks
       THEN ClickSubmit("enter")
       ELSE /\ ControlsDone(files, TabBar, NoCall("enter"))
            /\ UNCHANGED <<controlsState, controlsFilename, controlsProject,
                           controlsPending, shown, inputValue, submitDisabled>>

\* A click on the submit button, which a disabled button does not deliver.
DoClickSubmit ==
  /\ Settled
  /\ shown \in Forms
  /\ submitDisabled = FALSE
  /\ ClickSubmit("clickSubmit")

\* The project's files change otherwise than through these controls, in a
\* task of its own: a file is added or deleted, and the tab bar handles
\* filesChanged.
DoFilesChangedElsewhere ==
  /\ Settled
  /\ \E e \in {d \in Edits(files) : /\ d.kind \in {"add", "delete"}
                                    /\ VisibleFiles(d.files) = d.files} :
       ControlsDone(e.files, OnProjectFilesChanged(TabBar, e.files),
                    NoCall("filesChanged"))
  /\ UNCHANGED controlsVarsButOp

\* The callback that set editor(id) passed to requestAnimationFrame runs,
\* and finds an element or nothing.
DoEditorResolved ==
  /\ Settled
  /\ DoSetEditor

NextControls ==
  \/ DoClickAddFile
  \/ DoClickMenuButton
  \/ DoMenuSelectRename
  \/ DoMenuSelectDelete
  \/ DoClickCancel
  \/ DoFilenameInputChange
  \/ DoSetControlsProject
  \/ DoControlsUpdate
  \/ DoFilenameInputKeydown
  \/ DoClickSubmit
  \/ DoFilesChangedElsewhere
  \/ DoUpdate
  \/ DoEditorResolved

(***************************************************************************)
(* The editor property of the file tab bar.                                *)
(***************************************************************************)
\* root.getElementById(id) ?? undefined, for the id of node.
GetElementById(node) == IF node \in inDocument THEN node ELSE NoEditor

\* this._editor = node, an internal property whose change requests an
\* update.
AssignEditor(node) ==
  /\ editorNode' = node
  /\ _editor' = (node # NoEditor)
  /\ pending' = (pending \/ node # editorNode)

\* set editor(elementOrId) for an element.
DoSetEditorElement ==
  \E node \in Editors :
    /\ AssignEditor(node)
    /\ lastAssigned' = [kind |-> "element", node |-> node]
    /\ lastFileOp' = [op |-> "editor", kind |-> "", name |-> NoFile,
                      reconciled |-> FALSE]
    /\ UNCHANGED <<files, _activeFileName, _activeFileIndex, changedName, preFile,
                   tabVars, controlsVars, inDocument, callbacks>>

\* set editor(elementOrId) for a string: the lookup is deferred.
DoSetEditorId ==
  \E node \in Editors :
    /\ Len(callbacks) < MaxCallbacks
    /\ callbacks' = Append(callbacks, node)
    /\ lastAssigned' = [kind |-> "id", node |-> node]
    /\ lastFileOp' = [op |-> "editor", kind |-> "", name |-> NoFile,
                      reconciled |-> FALSE]
    /\ UNCHANGED <<files, _activeFileName, _activeFileIndex, _editor, changedName,
                   pending, preFile, tabVars, controlsVars, editorNode, inDocument>>

\* The next animation frame runs the callback that was requested first.
DoAnimationFrame ==
  /\ callbacks # <<>>
  /\ AssignEditor(GetElementById(Head(callbacks)))
  /\ callbacks' = Tail(callbacks)
  /\ lastFileOp' = [op |-> "editorResolved", kind |-> "", name |-> NoFile,
                    reconciled |-> FALSE]
  /\ UNCHANGED <<files, _activeFileName, _activeFileIndex, changedName, preFile,
                 tabVars, controlsVars, inDocument, lastAssigned>>

\* The host renders an editor into the root, or removes one.
DoHostRenders ==
  \E node \in Editors :
    /\ inDocument' = IF node \in inDocument THEN inDocument \ {node}
                                             ELSE inDocument \cup {node}
    /\ UNCHANGED <<fileVars, tabVars, controlsVars, editorNode, callbacks,
                   lastAssigned>>

NextEditor ==
  \/ DoSetEditorElement
  \/ DoSetEditorId
  \/ DoAnimationFrame
  \/ DoHostRenders
  \/ DoUpdate

Init == InitTabs /\ InitFiles /\ InitControls /\ InitEditor

NextTabs ==
  \/ DoSetActive
  \/ DoSlotchange
  \/ DoClick
  \/ DoKeydown
  \/ DoFocus
  \/ DoTabSelfActivate
  \/ DoMarkAttribute

SpecTabs == Init /\ [][NextTabs]_vars
SpecFiles == Init /\ [][NextFiles]_vars
SpecControls == Init /\ [][NextControls]_vars
SpecEditor == Init /\ [][NextEditor]_vars

(***************************************************************************)
(* Properties of the internal tab bar, checked under SpecTabs.             *)
(***************************************************************************)
ActiveItems == {i \in 1..Len(_tabs) : tabActive[_tabs[i]]}
TabEvents == SelectSeq(events, LAMBDA e : e.by = "tab")
BarEvents == SelectSeq(events, LAMBDA e : e.by = "bar")
\* lastOp was bar.active = new while a different tab old was active.
Replaced(old, new) ==
  /\ lastOp.op = "setActive"
  /\ lastOp.arg = new
  /\ pre.active = old
  /\ old # None /\ new # None /\ old # new

\* C1: after every call of setActive (and after every other operation of
\* the bar) at most one item of the collection has active = true.
C1_AtMostOneActive == Cardinality(ActiveItems) <= 1

C1_Witness ==
  /\ Len(_tabs) = NumTabs
  /\ \E old, new \in Range(_tabs) : Replaced(old, new) /\ tabActive[new]

\* C2: in a setActive(new) call that replaces a different active item old,
\* old.active = false is assigned before new.active = true, and after no
\* assignment of the call do old and new both have active = true.
C2_OldClearedBeforeNewSet ==
  \A old, new \in Tabs :
    Replaced(old, new) =>
      /\ \E i, j \in 1..Len(writes) :
           i < j /\ writes[i] = <<old, FALSE>> /\ writes[j] = <<new, TRUE>>
      /\ \A k \in 1..Len(snaps) : ~(snaps[k][old] /\ snaps[k][new])

C2_Witness ==
  \E old, new \in Tabs :
    /\ Replaced(old, new)
    /\ Len(snaps) = 2
    /\ ~snaps[1][old] /\ ~snaps[1][new]
    /\ snaps[2][new]

\* C3: a setActive(x) call that directly follows a setActive(x) call with
\* the same x leaves the active item as it was, assigns no active flag and
\* dispatches no tabchange.
C3_SetActiveIdempotent ==
  (lastOp.op = "setActive" /\ repeated) =>
    /\ _active = pre.active
    /\ _active = lastOp.arg
    /\ writes = <<>>
    /\ events = <<>>

C3_Witness ==
  /\ lastOp.op = "setActive"
  /\ repeated
  /\ lastOp.arg # None
  /\ tabActive[lastOp.arg]

\* C4: when a setActive(item) call turns item.active from false to true and
\* the item dispatches tabchange, the bar's listener runs once and changes
\* nothing, the call dispatches that one tabchange only, and item.active =
\* true is the last assignment of the call.
C4_NotificationIsNoOp ==
  (lastOp.op = "setActive" /\ TabEvents # <<>>) =>
    /\ events = <<[by |-> "tab", tab |-> lastOp.arg]>>
    /\ handled = <<[tab |-> lastOp.arg, noop |-> TRUE]>>
    /\ writes[Len(writes)] = <<lastOp.arg, TRUE>>
    /\ Len(writes) <= 2
    /\ _active = lastOp.arg

C4_Witness ==
  /\ lastOp.op = "setActive"
  /\ Len(TabEvents) = 1
  /\ Len(handled) = 1
  /\ handled[1].noop

\* The positions of the items that claimed to be active when lastOp started.
Claimants == {i \in 1..Len(_tabs) : _tabs[i] \in pre.claim}
First(S) == CHOOSE i \in S : \A j \in S : i <= j

\* C5: after _onSlotchange the active item is the first item, in display
\* order, that had its active property or its active attribute set; every
\* later item has active = false; with no such item the active item is
\* undefined and no item is active.
C5_FirstActiveWins ==
  lastOp.op = "slotchange" =>
    IF Claimants = {}
      THEN _active = None /\ ActiveItems = {}
      ELSE /\ _active = _tabs[First(Claimants)]
           /\ ActiveItems = {First(Claimants)}

C5_Witness ==
  /\ lastOp.op = "slotchange"
  /\ Cardinality(Claimants) >= 2
  /\ pre.active # None
  /\ pre.active # _active
  /\ tabActive[_active]

\* C6: after _onSlotchange with n items the item at position i (from 0) has
\* index i.
C6_Reindexed ==
  lastOp.op = "slotchange" =>
    \A i \in 1..Len(_tabs) : tabIndex[_tabs[i]] = i - 1

C6_Witness ==
  /\ lastOp.op = "slotchange"
  /\ pre.moved
  /\ Len(_tabs) = NumTabs
  /\ tabIndex[_tabs[Len(_tabs)]] = NumTabs - 1

\* The position (from 1) of tab t in the collection.
PosOf(t) == CHOOSE i \in 1..Len(_tabs) : _tabs[i] = t
Max(a, b) == IF a >= b THEN a ELSE b
Min(a, b) == IF a <= b THEN a ELSE b
\* lastOp was a keydown while the active item was at the boundary that the
\* key points to.
AtBoundary ==
  /\ lastOp.op = "keydown"
  /\ pre.active \in Range(_tabs)
  /\ \/ lastOp.arg = "ArrowLeft" /\ PosOf(pre.active) = 1
     \/ lastOp.arg = "ArrowRight" /\ PosOf(pre.active) = Len(_tabs)

\* C12: ArrowLeft with the active item at index 0 and ArrowRight with the
\* active item at index n-1 leave the active item, assign no active flag,
\* dispatch no tabchange and neither move the focus nor wait to move it.
C12_BoundaryKeyIsNoOp ==
  AtBoundary =>
    /\ _active = pre.active
    /\ writes = <<>>
    /\ events = <<>>
    /\ suspended = <<>>
    /\ focused = <<>>

C12_Witness ==
  /\ AtBoundary
  /\ lastOp.arg = "ArrowLeft"
  /\ Len(_tabs) = NumTabs
  /\ tabActive[_active]

\* C13: a keydown with the active item at position p of n items makes the
\* item at p-1 active for ArrowLeft (p > 0) and the item at p+1 for
\* ArrowRight (p < n-1), and leaves the active item otherwise; the new
\* active item is in the collection and its index is within 0..n-1.
C13_KeyMovesWithinBounds ==
  (lastOp.op = "keydown" /\ pre.active # None) =>
    /\ pre.active \in Range(_tabs)
    /\ _active \in Range(_tabs)
    /\ tabIndex[_active] = PosOf(_active) - 1
    /\ LET p == PosOf(pre.active)
           n == Len(_tabs)
       IN PosOf(_active) = IF lastOp.arg = "ArrowLeft" THEN Max(p - 1, 1)
                           ELSE IF lastOp.arg = "ArrowRight" THEN Min(p + 1, n)
                           ELSE p

C13_Witness ==
  /\ lastOp.op = "keydown"
  /\ lastOp.arg = "ArrowRight"
  /\ pre.active \in Range(_tabs)
  /\ _active \in Range(_tabs)
  /\ PosOf(_active) = PosOf(pre.active) + 1

\* C14: a keydown that changes the active item makes the target active and
\* suspends without calling focus(); focus() is called only in a later step,
\* the one in which tab.updateComplete resolves for a tab that a keydown
\* suspended on.
C14_FocusAfterActivationAndUpdate ==
  /\ []((lastOp.op = "keydown" /\ _active # pre.active) =>
          /\ suspended = <<_active>>
          /\ _active \in awaiting
          /\ tabActive[_active]
          /\ focused = <<>>)
  /\ [][\A i \in 1..Len(focused') :
          lastOp'.op = "focus" /\ focused'[i] \in awaiting]_vars

C14_Witness ==
  /\ lastOp.op = "focus"
  /\ focused = <<_active>>
  /\ tabActive[_active]
  /\ _active \notin awaiting

\* C15: whenever focus() is called on a tab, that tab is the active item.
C15_FocusedIsActive ==
  \A i \in 1..Len(focused) : focused[i] = _active /\ tabActive[focused[i]]

\* C16: setActive(undefined) while an item is active sets that item's flag
\* to false and the bar dispatches exactly one tabchange, without a tab;
\* setActive(undefined) while no item is active dispatches nothing.
C16_ClearingNotifiesOnce ==
  (lastOp.op = "setActive" /\ lastOp.arg = None) =>
    IF pre.active # None
      THEN /\ ~tabActive[pre.active]
           /\ _active = None
           /\ events = <<[by |-> "bar", tab |-> None]>>
      ELSE events = <<>> /\ writes = <<>>

C16_Witness ==
  /\ lastOp.op = "setActive"
  /\ lastOp.arg = None
  /\ pre.active # None
  /\ Len(BarEvents) = 1
  /\ ActiveItems = {}

\* C17: an operation that changes the bar's active item dispatches a
\* tabchange with the new active item: the tab's own one, or the bar's
\* one without a tab when the new active item is undefined.
C17_ChangeIsNotified ==
  (lastOp.op \in {"setActive", "slotchange", "keydown", "click"}
     /\ _active # pre.active) =>
    \E i \in 1..Len(events) :
      events[i] = IF _active = None
                    THEN [by |-> "bar", tab |-> None]
                    ELSE [by |-> "tab", tab |-> _active]

\* The tabs on the path of the click that lastOp handled.
ClickedTabs == {lastOp.arg[i] : i \in 1..Len(lastOp.arg)} \cap Tabs

\* C18: a click changes nothing when there is no tab on its path or when
\* that tab is the active one; otherwise the tab on the path, which may be
\* the target or an ancestor of the target, becomes the active item and
\* the item that was active has active = false.
C18_ClickActivatesTabOnPath ==
  lastOp.op = "click" =>
    IF ClickedTabs = {} \/ ClickedTabs = {pre.active}
      THEN _active = pre.active /\ writes = <<>> /\ events = <<>>
      ELSE /\ _active \in ClickedTabs
           /\ tabActive[_active]
           /\ pre.active # None => ~tabActive[pre.active]

C18_Witness ==
  /\ lastOp.op = "click"
  /\ lastOp.arg[1] = Other
  /\ _active \in ClickedTabs
  /\ pre.active \notin {None, _active}
  /\ ActiveItems = {PosOf(_active)}

\* C19: no handler of the bar throws; with an empty collection the active
\* item is undefined after every operation, and a click that resolves to
\* no tab leaves the active item as it was.
C19_OperationsTotal ==
  /\ ~error
  /\ _tabs = <<>> => _active = None
  /\ (lastOp.op = "click" /\ ClickedTabs = {}) => _active = pre.active

C19_Witness ==
  /\ lastOp.op = "keydown"
  /\ lastOp.arg = "ArrowRight"
  /\ _tabs = <<>>
  /\ _active = None
  /\ ~error

\* lastOp was a slotted tab setting its own active property from false to
\* true, and the bar's listener has handled the tab's tabchange.
SelfActivated ==
  /\ lastOp.op = "tabActive"
  /\ lastOp.arg \in Range(_tabs)
  /\ Len(handled) >= 1

\* C22: after an item of the collection has set its own active flag from
\* false to true and the bar has handled the notification, the bar's
\* active item is that item, the previously active item has active =
\* false, and at most one item of the collection is active.
C22_SelfActivationRouted ==
  (lastOp.op = "tabActive" /\ lastOp.arg \in Range(_tabs)) =>
    /\ Len(handled) >= 1
    /\ handled[1].tab = lastOp.arg
    /\ _active = lastOp.arg
    /\ tabActive[lastOp.arg]
    /\ (pre.active \notin {None, lastOp.arg} => ~tabActive[pre.active])
    /\ ActiveItems = {PosOf(lastOp.arg)}

C22_Witness ==
  /\ SelfActivated
  /\ pre.active \in Range(_tabs) \ {lastOp.arg}
  /\ _active = lastOp.arg
  /\ ~tabActive[pre.active]
  /\ handled[1].noop = FALSE

\* C24: after every operation of the bar its record and the tabs' flags
\* agree: an item of the collection has active = true exactly if it is the
\* bar's active item, and an active item that is defined is an item of the
\* current collection.
C24_RecordAndFlagsAgree ==
  /\ _active # None => _active \in Range(_tabs)
  /\ \A i \in 1..Len(_tabs) : tabActive[_tabs[i]] <=> (_tabs[i] = _active)

\* A collection change has dropped the item that was active: no item is
\* active, and the dropped item's flag is cleared.
C24_Witness ==
  /\ lastOp.op = "slotchange"
  /\ _tabs # <<>>
  /\ pre.active \notin Range(_tabs) \cup {None}
  /\ _active = None
  /\ ~tabActive[pre.active]

TypeTabs ==
  /\ _active \in Tabs \cup {None}
  /\ Len(writes) = Len(snaps)
(***************************************************************************)
(* Properties of the file tab bar, checked under SpecFiles.                *)
(***************************************************************************)
Visible == VisibleFiles(files)
\* lastFileOp ran _setNewActiveFile.
Reconciled == lastFileOp.reconciled
\* The project removed the active file from the visible files (deleted it),
\* and the active index was the position of that file.
ActiveDeleted ==
  /\ lastFileOp.op = "filesChanged"
  /\ lastFileOp.kind = "delete"
  /\ lastFileOp.name = preFile.name
  /\ preFile.pos >= 0
  /\ preFile.pos = preFile.index

\* C7 as claimed: after the active file is deleted its predecessor, the
\* visible file left of it, is the active file.
C7_PredecessorActivated ==
  (ActiveDeleted /\ preFile.pos >= 1) =>
    _activeFileName = Visible[preFile.pos].name

\* C7 as amended: after the active file is deleted the active file is the
\* visible file that now has the deleted file's index (its successor), and
\* its predecessor only when the deleted file was the last visible one.
C7_SameIndexOrLeft ==
  (ActiveDeleted /\ Visible # <<>>) =>
    _activeFileName = Visible[Min(preFile.index + 1, Len(Visible))].name

C7_Witness ==
  /\ ActiveDeleted
  /\ preFile.pos = 1
  /\ Len(Visible) = 2
  /\ _activeFileName = Visible[2].name

\* C8: when _setNewActiveFile runs and the active filename (not empty) is
\* in the visible list, the active filename stays and the active index
\* becomes its position in the visible list.
C8_NameContinuity ==
  (Reconciled /\ preFile.name # NoFile /\ preFile.name \in NamesOf(Visible)) =>
    /\ _activeFileName = preFile.name
    /\ _activeFileIndex = FindIndex(Visible, preFile.name)

C8_Witness ==
  /\ Reconciled
  /\ lastFileOp.kind = "delete"
  /\ preFile.name # NoFile
  /\ lastFileOp.name # preFile.name
  /\ _activeFileName = preFile.name
  /\ preFile.index = 1
  /\ _activeFileIndex = 0

\* C9: after _setNewActiveFile the active filename is the name of exactly
\* one visible file if there is a visible file, and the empty name if
\* there is none.
C9_ActiveIsVisibleOrEmpty ==
  Reconciled =>
    IF Visible # <<>>
      THEN Cardinality({i \in 1..Len(Visible) : Visible[i].name = _activeFileName}) = 1
      ELSE _activeFileName = NoFile

C9_Witness ==
  /\ Reconciled
  /\ lastFileOp.op = "update"
  /\ preFile.name # NoFile
  /\ preFile.pos = -1
  /\ _activeFileName \in NamesOf(Visible)

\* C10: after _setNewActiveFile the active index is the position of the
\* active filename in the visible files.
C10_IndexIsPosition ==
  (Reconciled /\ _activeFileName # NoFile) =>
    /\ _activeFileIndex + 1 \in 1..Len(Visible)
    /\ Visible[_activeFileIndex + 1].name = _activeFileName

\* C11: after _setNewActiveFile with no visible file (no files, or all of
\* them hidden) the active index is 0 and the active filename is empty,
\* whatever they were before.
C11_EmptyGivesSentinel ==
  (Reconciled /\ Visible = <<>>) =>
    /\ _activeFileIndex = 0
    /\ _activeFileName = NoFile

C11_Witness ==
  /\ Reconciled
  /\ Visible = <<>>
  /\ files # <<>>
  /\ preFile.name # NoFile
  /\ preFile.index > 0
  /\ _activeFileIndex = 0
  /\ _activeFileName = NoFile

\* _setNewActiveFile ran its loop: the active filename it started from is
\* not the name of a visible file.
Scanned == Reconciled /\ preFile.name \notin NamesOf(Visible)

\* C21: when _setNewActiveFile runs, the previously active filename is not
\* in the visible list and the visible list is not empty, the new active
\* file is the visible file at the largest position that is at most the
\* previous active index: the one at the previous index if there is one,
\* otherwise the last visible one.
C21_LargestPositionAtMostIndex ==
  (Scanned /\ Visible # <<>>) =>
    /\ preFile.index >= 0
    /\ _activeFileName = Visible[Min(preFile.index + 1, Len(Visible))].name

C21_Witness ==
  /\ Scanned
  /\ preFile.name # NoFile
  /\ Len(Visible) = 2
  /\ preFile.index = 2
  /\ _activeFileName = Visible[2].name

\* The visible file lists: the sequences of distinct names, none hidden.
VisibleLists ==
  {[i \in 1..Len(q) |-> [name |-> q[i], hidden |-> FALSE]] : q \in DistinctSeqs(FileNames)}

\* C25: from every reachable active filename and active index, and for
\* every visible file list, running _setNewActiveFile a second time leaves
\* the active filename and the active index that the first run gave.
C25_ReconcileIdempotent ==
  \A fs \in VisibleLists :
    LET once == SetNewActiveFile(fs, CurFile)
    IN SetNewActiveFile(fs, once) = once

\* C28: from the initial active filename (empty) and active index (0),
\* _setNewActiveFile against a project with at least one visible file
\* makes the first visible file the active file.
C28_FirstVisibleFromInitial ==
  (Reconciled /\ preFile.name = NoFile /\ preFile.index = 0 /\ Visible # <<>>) =>
    /\ _activeFileName = Visible[1].name
    /\ _activeFileIndex = 0

C28_Witness ==
  /\ lastFileOp.op = "projectChanged"
  /\ preFile.name = NoFile
  /\ preFile.index = 0
  /\ Len(Visible) >= 2
  /\ files[1].hidden
  /\ _activeFileName = Visible[1].name

TypeFiles ==
  /\ _activeFileName \in FileNames \cup {NoFile}
  /\ _activeFileIndex \in -1..MaxFiles
  /\ Len(files) <= MaxFiles

(***************************************************************************)
(* Claims about the file system controls, checked under SpecControls.      *)
(***************************************************************************)

\* C20: A keydown of Enter in the filename input clicks the submit button
\* of the shown form only if, at that moment, a project is attached and
\* isValidNewFilename(value of the input) is true; otherwise no method of
\* the project is called.
C20_EnterOnlyWhenEnabled ==
  (lastControlsOp.op = "enter" /\ ~lastControlsOp.enabled)
    => (~lastControlsOp.clicked /\ lastControlsOp.call = "none")

\* C23: addFile and renameFile of the project are called only with a new
\* filename for which isValidNewFilename is true at the time of the call,
\* whatever was typed, however the files changed, and whether the form was
\* submitted by a click or by Enter.
C23_CallsOnlyWithValidName ==
  lastControlsOp.call \in {"addFile", "renameFile"} => lastControlsOp.enabled

\* The submit button of the new-file form was clicked with a project
\* attached and a filename that is not empty, and the tab bar has run its
\* update after that.
NewFileSubmitted ==
  /\ lastControlsOp.clicked
  /\ lastControlsOp.call = "addFile"

\* C26: after such a submission addFile(filename) is called before newFile
\* is dispatched, and once the tab bar has handled newFile and run its next
\* update the active filename is the new filename and the active index is
\* its position in the visible files.
C26_NewFileBecomesActive ==
  NewFileSubmitted =>
    /\ lastControlsOp.log = <<"addFile", "newFile">>
    /\ (~pending /\ lastFileOp.op = "update") =>
         /\ _activeFileName = lastControlsOp.name
         /\ _activeFileIndex = FindIndex(VisibleFiles(files), lastControlsOp.name)

\* The same, for a tab bar that has an editor when it updates.
WithEditor_NewFileBecomesActive ==
  (NewFileSubmitted /\ _editor /\ ~pending /\ lastFileOp.op = "update"
     /\ lastFileOp.reconciled) =>
    /\ _activeFileName = lastControlsOp.name
    /\ _activeFileIndex = FindIndex(VisibleFiles(files), lastControlsOp.name)

(***************************************************************************)
(* Claims about the editor property, checked under SpecEditor.             *)
(***************************************************************************)

\* C27: the editor reflects the most recent assignment to the editor
\* property: when the last assignment was an element, made while a lookup
\* by id was still deferred, then after all deferred callbacks have run
\* the editor is that element and not the result of the earlier lookup.
C27_LatestAssignmentWins ==
  (lastAssigned.kind = "element" /\ callbacks = <<>>) =>
    editorNode = lastAssigned.node

TypeControls ==
  /\ controlsState \in {"closed", "menu"} \cup Forms
  /\ shown \in {"closed", "menu"} \cup Forms
  /\ controlsFilename \in FileNames \cup {NoFile}
  /\ inputValue \in FileNames \cup {NoFile}
  /\ controlsProject \in BOOLEAN
  /\ controlsPending \in BOOLEAN
  /\ submitDisabled \in BOOLEAN
  /\ Len(files) <= MaxFiles
====
